---- MODULE Spec2Model ----
(***************************************************************************)
(* The resilient runner of src/test/python/logs.py (TestResults.run) and   *)
(* the unit of work it drives, the profiling routine test_algorithm of     *)
(* src/test/python/runtime.py.                                             *)
(*                                                                         *)
(* run() is one asyncio task.  Each loop iteration awaits the unit of work *)
(* under asyncio.wait_for(..., timeout=10.0).  The event loop is single    *)
(* threaded: the deadline timer can only fire while the work is parked at  *)
(* a suspension point (an await that yields to the loop).  A unit of work  *)
(* that never yields, as test_algorithm does (its whole big_o sweep is one *)
(* synchronous call), keeps the loop busy until it returns or raises.      *)
(***************************************************************************)
EXTENDS Integers, Sequences, FiniteSets, TLC

\* ---------------------------------------------------------------- bounds
\* Largest number of AlgorithmTest items in one batch.
MaxItems == 3
\* Largest max_attempts passed explicitly to get_input.
MaxAttempts == 1
\* Largest number of get_input calls in one process.
MaxCalls == 3
\* Largest n_repeats handed to TestResults.__init__ (0 is a legal argument).
MaxRepeats == 3
\* Number of size points one sweep of the unit of work measures.
MaxMeasures == 3
\* Longest duration, in time units, of one synchronous measurement step.
MaxStepTime == 5

\* Longest singly linked list, and largest value stored in a node.
MaxNodes == 4
MaxValue == 4

\* Largest capacity k of a CircularQueue (0 is a legal argument), and the
\* largest datum enqueued.
MaxK == 3
MaxData == 2

\* Largest number handed to PriorityQueue.insert and deleteNode, and the
\* largest number of insert and deleteNode calls on one array.
MaxNum == 3
MaxHeapOps == 4

\* Longest list handed to a Sorting method and the largest integer in it.
MaxSortLen == 4
MaxSortValue == 2

\* Largest number of vertices of a Graph and the largest edge weight.
MaxVertices == 3
MaxWeight == 2

\* Largest amount of one rotation of the dial and the largest number of
\* rotation lines in one input.
MaxAmount == 210
MaxRotations == 2

\* ------------------------------------------------------ program constants
\* def __init__(self, test: Callable, n_repeats: Optional[int] = 3)
default_n_repeats == 3
\* def get_input(year: int, day: int, max_attempts: int = 3) -> str
default_max_attempts == 3
\* asyncio.wait_for(self.test(), timeout=10.0)
timeout == 10

\* The dial of 2025 day 1: its positions and where it starts.
dial_size == 100
dial_start == 50
test_name == "test"

\* Exceptions (subclasses of Exception, none of them a TimeoutError) that the
\* unit of work raises: a failure of the target during a measurement, and the
\* regression's complaint about too few distinct sizes.
ExcKinds == {"MeasurementError", "InsufficientDataError"}

\* What the value returned by the unit of work looks like to
\* _log_test_results: a dict whose values are dicts (what test_algorithm and
\* example_test build), a dict whose values are not dicts, or no dict at all.
Shapes == {"dict_of_dicts", "flat_dict", "non_dict"}

NoValue == [shape |-> "none", keys |-> {}, data |-> <<>>]
NoError == [type |-> "none", args |-> <<>>]

VARIABLES
    n_repeats,  \* self.n_repeats
    suspends,   \* TRUE: the unit of work awaits between its steps;
                \* FALSE: it runs without a suspension point (test_algorithm)
    shape,      \* the shape of the value the unit of work returns
    pc,         \* where run() is
    attempt,    \* the loop variable of run()
    clock,      \* time units since the current attempt was started
    step,       \* size points the current sweep has measured
    samples,    \* the Sample accumulator of the current profiling call
    inflight,   \* attempts whose coroutine has been started and not ended
    ret,        \* the value run() returned
    err,        \* the exception run() raised
    log,        \* records emitted on the logger of logs.py
    history     \* how each attempt ended, in order

vars == <<n_repeats, suspends, shape, pc, attempt, clock, step, samples,
          inflight, ret, err, log, history>>

config == <<n_repeats, suspends, shape>>

\* ------------------------------------------- state of the other components
\* The batch loops that profile a list of AlgorithmTest items: main of
\* src/test/python/runtime.py and test_solutions of the challenge scripts.
VARIABLES
    b_mode,     \* which loop: "main" or "test_solutions"
    b_n,        \* len(test_cases)
    b_pc,       \* where the loop is
    b_pos,      \* index of the item the loop is at
    b_runs,     \* per item: how often its profiling was started
    b_runners,  \* per item: how many TestResults were built for it
    b_ended,    \* per item so far: how its profiling ended
    b_log       \* records the loop logged

batchVars == <<b_mode, b_n, b_pc, b_pos, b_runs, b_runners, b_ended, b_log>>

\* The batch loop is not running.
BatchIdle ==
    /\ b_mode = "main"
    /\ b_n = 0
    /\ b_pc = "idle"
    /\ b_pos = 0
    /\ b_runs = <<>>
    /\ b_runners = <<>>
    /\ b_ended = <<>>
    /\ b_log = <<>>

\* --------------------------------------------------- get_input variables
\* Puzzles whose input is requested, and what read() may return for an
\* input file (" " stands for the whitespace that strip() removes): empty,
\* blank, and text with whitespace before, after and inside it.
Years == {2025}
Days == {1, 6}
RawFiles ==
    {<<>>, <<" ">>, <<"a">>, <<" ", "a">>, <<"a", " ">>, <<"a", " ", "a">>}

\* The arguments of one call as the caller passes them; m is the value the
\* parameter max_attempts has in the body.
Calls ==
    [year : Years, day : Days, form : {"omitted"}, m : {default_max_attempts}]
    \cup [year : Years, day : Days, form : {"positional"}, m : 0..MaxAttempts]

NoCall == [year |-> 0, day |-> 0, form |-> "none", m |-> 0]
NoResult ==
    [kind |-> "none", value |-> <<>>, msg |-> "none", warned |-> FALSE,
     served |-> {}, prior |-> {}]

VARIABLES
    i_cache,    \* the lru_cache of get_input: key -> content
    i_pc,       \* "idle" between calls, "loop" inside the for loop
    i_call,     \* the arguments of the current (or last) call
    i_attempt,  \* the loop variable attempt
    i_trace,    \* outcome of every open/read of the current (or last) call
    i_raw,      \* what the last successful read() returned, before strip()
    i_result,   \* how the last call ended
    i_hist,     \* the calls made so far, in order
    i_served    \* arguments as passed -> content first returned for them

inputVars ==
    <<i_cache, i_pc, i_call, i_attempt, i_trace, i_raw, i_result, i_hist,
      i_served>>

EmptyMap == [k \in {} |-> <<>>]

\* get_input has not been called.
InputIdle ==
    /\ i_cache = EmptyMap
    /\ i_pc = "idle"
    /\ i_call = NoCall
    /\ i_attempt = 0
    /\ i_trace = <<>>
    /\ i_raw = <<>>
    /\ i_result = NoResult
    /\ i_hist = <<>>
    /\ i_served = EmptyMap

\* ---------------------------------------------- solve_challenge variables
VARIABLES
    s_input_data,  \* the puzzle input handed to both parts
    s_pc,          \* "call", "solving", "done", or "propagated"
    s_solvers,     \* the solver of every solve_challenge call so far
    s_solutions,   \* what every finished solve_challenge call returned
    s_raised,      \* the exception that left solve_challenge, or "none"
    s_log          \* the log records of solve_challenge

solveVars ==
    <<s_input_data, s_pc, s_solvers, s_solutions, s_raised, s_log>>

\* solve_challenge has not been called.
SolveIdle ==
    /\ s_input_data = <<>>
    /\ s_pc = "idle"
    /\ s_solvers = <<>>
    /\ s_solutions = <<>>
    /\ s_raised = "none"
    /\ s_log = <<>>

\* ---------------------------------------------------------- main variables
VARIABLES
    m_parts,      \* script_path.split(os.sep)
    m_solvers,    \* <<part1, part2>>
    m_pc,         \* "start", "retrieve", "solve", "perf", "returned",
                  \* "propagated"
    m_year_day,   \* <<year, day>> once extracted
    m_got,        \* how get_input(year, day) ended
    m_input,      \* aoc_input
    m_solutions,  \* solutions
    m_out,        \* what main printed and logged
    m_perf,       \* how asyncio.run(test_solutions()) ended
    m_exit,       \* {} while main runs, then {exit code}
    m_raised      \* the exception that left main, or "none"

mainVars ==
    <<m_parts, m_solvers, m_pc, m_year_day, m_got, m_input, m_solutions,
      m_out, m_perf, m_exit, m_raised>>

\* main has not been called.
MainIdle ==
    /\ m_parts = <<>>
    /\ m_solvers = <<>>
    /\ m_pc = "idle"
    /\ m_year_day = <<>>
    /\ m_got = "none"
    /\ m_input = <<>>
    /\ m_solutions = <<>>
    /\ m_out = <<>>
    /\ m_perf = "none"
    /\ m_exit = {}
    /\ m_raised = "none"

\* ----------------------------------------------- find_middle_node variables
VARIABLES
    l_nodes,  \* the nodes of the list: node i has a value and a next node
              \* (0 is Python's None); the head is node 1
    l_head,   \* the argument head: 1, or 0 for an empty list
    l_slow,   \* slow
    l_fast,   \* fast
    l_pc,     \* "loop" or "returned"
    l_ret     \* {} while the call runs, then {what it returned}

listVars == <<l_nodes, l_head, l_slow, l_fast, l_pc, l_ret>>

\* find_middle_node has not been called.
ListIdle ==
    /\ l_nodes = <<>>
    /\ l_head = 0
    /\ l_slow = 0
    /\ l_fast = 0
    /\ l_pc = "idle"
    /\ l_ret = {}

\* -------------------------------------------------- CircularQueue variables
VARIABLES
    q_k,      \* self.k
    q_queue,  \* self.queue, slot i of Python at index i + 1; 0 is None
    q_head,   \* self.head
    q_tail,   \* self.tail
    q_fifo,   \* the data accepted and not yet returned, oldest first
    q_last    \* the last call: its name, what it returned (0 is None), the
              \* exception it raised

queueVars == <<q_k, q_queue, q_head, q_tail, q_fifo, q_last>>

NoOp == [op |-> "none", ret |-> 0, exc |-> "none"]

\* No CircularQueue exists.
QueueIdle ==
    /\ q_k = 0
    /\ q_queue = <<>>
    /\ q_head = 0
    /\ q_tail = 0
    /\ q_fifo = <<>>
    /\ q_last = NoOp

\* -------------------------------------------------- PriorityQueue variables
VARIABLES
    h_array,   \* the list `array`, Python index i at index i + 1
    h_before,  \* `array` as it was before the last call
    h_ops,     \* the calls made on the array, in order
    h_exc      \* the exception the last call raised, or "none"

heapVars == <<h_array, h_before, h_ops, h_exc>>

\* No array exists.
HeapIdle ==
    /\ h_array = <<>>
    /\ h_before = <<>>
    /\ h_ops = <<>>
    /\ h_exc = "idle"

\* -------------------------------------------------------- Sorting variables
VARIABLES
    srt_input,  \* the list as the caller built it
    srt_array,  \* the same list object, sorted in place by the call
    srt_pc,     \* "ready" before the call, the method's name after it
    srt_ret     \* what the method returned

sortVars == <<srt_input, srt_array, srt_pc, srt_ret>>

\* No list has been built.
SortIdle ==
    /\ srt_input = <<>>
    /\ srt_array = <<>>
    /\ srt_pc = "idle"
    /\ srt_ret = NoValue

\* ---------------------------------------------------------- Graph variables
VARIABLES
    g_V,       \* self.V
    g_graph,   \* self.graph as dijkstra reads it: graph[u][v], 0 for no edge
    g_dist,    \* dist
    g_sptSet,  \* sptSet
    g_u,       \* what the last min_distance call returned
    g_round,   \* iterations of dijkstra's outer loop completed
    g_pc       \* "loop", "picked", "raised" or "done"

graphVars == <<g_V, g_graph, g_dist, g_sptSet, g_u, g_round, g_pc>>

\* No dijkstra call is running.
GraphIdle ==
    /\ g_V = 0
    /\ g_graph = <<>>
    /\ g_dist = <<>>
    /\ g_sptSet = <<>>
    /\ g_u = 0
    /\ g_round = 0
    /\ g_pc = "idle"

\* ----------------------------------------------------------- dial variables
VARIABLES
    dl_lines,     \* rotation lines read so far by both parts
    dl_current,   \* part1's current
    dl_zeroes,    \* part1's zeroes
    dl_current2,  \* part2's current
    dl_ans,       \* part2's ans
    dl_clicks     \* single clicks so far after which the dial pointed at 0

dialVars == <<dl_lines, dl_current, dl_zeroes, dl_current2, dl_ans, dl_clicks>>

\* No input is being solved.
DialIdle ==
    /\ dl_lines = 0
    /\ dl_current = 0
    /\ dl_zeroes = 0
    /\ dl_current2 = 0
    /\ dl_ans = 0
    /\ dl_clicks = -1

\* No TestResults.run call is being followed step by step: a runner built
\* with the default n_repeats that has not been started.
RunnerIdle ==
    /\ n_repeats = default_n_repeats
    /\ suspends = FALSE
    /\ shape = "dict_of_dicts"
    /\ pc = "Pending"
    /\ attempt = 0
    /\ clock = 0
    /\ step = 0
    /\ samples = <<>>
    /\ inflight = {}
    /\ ret = NoValue
    /\ err = NoError
    /\ log = <<>>
    /\ history = <<>>

\* ----------------------------------------- what each component leaves alone
\* Everything that is not state of one TestResults.run call.
notRunner == <<batchVars, inputVars, solveVars, mainVars, listVars,
    queueVars, heapVars, sortVars, graphVars, dialVars>>

NotRunnerIdle == BatchIdle /\ InputIdle /\ SolveIdle /\ MainIdle /\
    ListIdle /\ QueueIdle /\ HeapIdle /\ SortIdle /\ GraphIdle /\ DialIdle

\* Everything that is not state of the batch loop.
notBatch == <<vars, inputVars, solveVars, mainVars, listVars, queueVars,
    heapVars, sortVars, graphVars, dialVars>>

BatchAlone == RunnerIdle /\ InputIdle /\ SolveIdle /\ MainIdle /\ ListIdle /\
    QueueIdle /\ HeapIdle /\ SortIdle /\ GraphIdle /\ DialIdle

\* Everything that is not state of get_input.
notInput == <<vars, batchVars, solveVars, mainVars, listVars, queueVars,
    heapVars, sortVars, graphVars, dialVars>>

InputAlone == RunnerIdle /\ BatchIdle /\ SolveIdle /\ MainIdle /\ ListIdle /\
    QueueIdle /\ HeapIdle /\ SortIdle /\ GraphIdle /\ DialIdle

\* Everything that is not state of solve_challenge.
notSolve == <<vars, batchVars, inputVars, mainVars, listVars, queueVars,
    heapVars, sortVars, graphVars, dialVars>>

SolveAlone == RunnerIdle /\ BatchIdle /\ InputIdle /\ MainIdle /\ ListIdle /\
    QueueIdle /\ HeapIdle /\ SortIdle /\ GraphIdle /\ DialIdle

\* Everything that is not state of main.
notMain == <<vars, batchVars, inputVars, solveVars, listVars, queueVars,
    heapVars, sortVars, graphVars, dialVars>>

MainAlone == RunnerIdle /\ BatchIdle /\ InputIdle /\ SolveIdle /\ ListIdle /\
    QueueIdle /\ HeapIdle /\ SortIdle /\ GraphIdle /\ DialIdle

\* Everything that is not state of find_middle_node.
notList == <<vars, batchVars, inputVars, solveVars, mainVars, queueVars,
    heapVars, sortVars, graphVars, dialVars>>

ListAlone == RunnerIdle /\ BatchIdle /\ InputIdle /\ SolveIdle /\ MainIdle /\
    QueueIdle /\ HeapIdle /\ SortIdle /\ GraphIdle /\ DialIdle

\* Everything that is not state of CircularQueue.
notQueue == <<vars, batchVars, inputVars, solveVars, mainVars, listVars,
    heapVars, sortVars, graphVars, dialVars>>

QueueAlone == RunnerIdle /\ BatchIdle /\ InputIdle /\ SolveIdle /\
    MainIdle /\ ListIdle /\ HeapIdle /\ SortIdle /\ GraphIdle /\ DialIdle

\* Everything that is not state of PriorityQueue.
notHeap == <<vars, batchVars, inputVars, solveVars, mainVars, listVars,
    queueVars, sortVars, graphVars, dialVars>>

HeapAlone == RunnerIdle /\ BatchIdle /\ InputIdle /\ SolveIdle /\ MainIdle /\
    ListIdle /\ QueueIdle /\ SortIdle /\ GraphIdle /\ DialIdle

\* Everything that is not state of Sorting.
notSort == <<vars, batchVars, inputVars, solveVars, mainVars, listVars,
    queueVars, heapVars, graphVars, dialVars>>

SortAlone == RunnerIdle /\ BatchIdle /\ InputIdle /\ SolveIdle /\ MainIdle /\
    ListIdle /\ QueueIdle /\ HeapIdle /\ GraphIdle /\ DialIdle

\* Everything that is not state of Graph.min_distance.
notGraph == <<vars, batchVars, inputVars, solveVars, mainVars, listVars,
    queueVars, heapVars, sortVars, dialVars>>

GraphAlone == RunnerIdle /\ BatchIdle /\ InputIdle /\ SolveIdle /\
    MainIdle /\ ListIdle /\ QueueIdle /\ HeapIdle /\ SortIdle /\ DialIdle

\* Everything that is not state of the dial of 2025 day 1.
notDial == <<vars, batchVars, inputVars, solveVars, mainVars, listVars,
    queueVars, heapVars, sortVars, graphVars>>

DialAlone == RunnerIdle /\ BatchIdle /\ InputIdle /\ SolveIdle /\ MainIdle /\
    ListIdle /\ QueueIdle /\ HeapIdle /\ SortIdle /\ GraphIdle

Terminal == {"Succeeded", "ExhaustedTimeout", "ExhaustedError", "Unexpected"}

\* --------------------------------------------------------------- logging
TimedOutRecord(k) ==
    [level |-> "error", msg |-> "timed out", test |-> test_name,
     attempt |-> k, total |-> n_repeats]

FailedRecord(k, e) ==
    [level |-> "error", msg |-> "failed", test |-> test_name,
     attempt |-> k, total |-> n_repeats, exc |-> e]

\* (mutation of SuccessRecord: the success line also says "of how many")
SuccessRecordWithTotal(k) ==
    [level |-> "info", msg |-> "Successful", test |-> test_name,
     attempt |-> k, total |-> n_repeats]

SuccessRecord(k) ==
    [level |-> "info", msg |-> "Successful", test |-> test_name, attempt |-> k]

SubtestRecord(key) == [level |-> "info", msg |-> "Subtest", subtest |-> key]

FieldRecord(key) == [level |-> "info", msg |-> "field", key |-> key]

\* The inner keys of the dict test_algorithm builds for its one subtest.
InnerKeys == <<"best_fit", "other_fits">>

\* ------------------------------------------------------- the unit of work
\* The value a completed sweep returns: it is built from the Samples of the
\* profiling call that produced it and from nothing else.
MakeResult(sh, s) ==
    [shape |-> sh,
     keys |-> IF sh = "non_dict" THEN {} ELSE {test_name},
     data |-> s]

\* (mutation of FreshSamples: an accumulator shared by successive calls)
KeptSamples(old) == old

\* The Sample accumulator a profiling call starts with: big_o.big_o is called
\* afresh by every call of test_algorithm and keeps its timings in locals.
FreshSamples(old) == <<>>

\* One measurement: a Sample recorded by the running attempt.
RecordSample(s, k, i) == Append(s, [attempt |-> k, n |-> i])

\* The work is executing synchronous code: it is not parked at a suspension
\* point at which the elapsed deadline would be delivered.
Running ==
    \/ ~suspends
    \/ clock < timeout
    \/ step = MaxMeasures

\* ------------------------------------------------------ _log_test_results
\* result.items() on a value that is not a dict raises AttributeError.
LogRaises(r) == r.shape = "flat_dict"

\* The records _log_test_results emits before it returns or raises.
ResultRecords(r, k) ==
    <<SuccessRecord(k)>> \o
    (IF r.shape = "non_dict" THEN <<>>
     ELSE <<SubtestRecord(test_name)>> \o
          (IF r.shape = "flat_dict" THEN <<>>
           ELSE [i \in 1..Len(InnerKeys) |-> FieldRecord(InnerKeys[i])]))

\* (mutation of Returned: the results with the attempt number added to them)
ReturnedTagged(r, k) == [r EXCEPT !.keys = @ \cup {"attempt"}]

\* What _log_test_results returns: the results it was given.
Returned(r, k) == r

\* ------------------------------------------------------------ TestResults
Init ==
    /\ n_repeats \in 0..MaxRepeats
    /\ suspends \in BOOLEAN
    /\ shape \in Shapes
    /\ pc = "Pending"
    /\ attempt = 0
    /\ clock = 0
    /\ step = 0
    /\ samples = <<>>
    /\ inflight = {}
    /\ ret = NoValue
    /\ err = NoError
    /\ log = <<>>
    /\ history = <<>>
    /\ NotRunnerIdle

\* (mutation of SweepStart: a retry resumes at the size point that failed)
SweepResumed(old) == old

\* Where the sweep of a profiling call starts: big_o.big_o is called with the
\* same min_n, max_n and n_measures by every call of test_algorithm.
SweepStart(old) == 0

\* self.test() is called and awaited under wait_for: attempt k starts.
BeginAttempt(k) ==
    /\ attempt' = k
    /\ pc' = "Attempting"
    /\ clock' = 0
    /\ step' = SweepStart(step)
    /\ samples' = FreshSamples(samples)
    /\ inflight' = inflight \cup {k}

\* (mutations of IsLastAttempt: an off-by-one bound, a handler that never
\* raises, a handler that raises on the first failure)
IsLastAttemptEarly(k) == k + 1 = n_repeats
IsLastAttemptNever(k) == FALSE
IsLastAttemptAlways(k) == TRUE
IsLastAttemptLate(k) == k = n_repeats + 1
IsLastAttemptFirst(k) == k = 1

\* if attempt == self.n_repeats
IsLastAttempt(k) == k = n_repeats

\* range(1, self.n_repeats + 1) has a value after k
HasNext(k) == k + 1 <= n_repeats

\* The attempt's coroutine is gone once it has returned or raised.
Ended(S, k) == S \ {k}

\* (mutation of Cancelled: the timed-out coroutine is detached, not awaited)
Detached(S, k) == S

\* On a timeout wait_for cancels the coroutine and waits until the
\* cancellation has unwound it before it raises TimeoutError.
Cancelled(S, k) == S \ {k}

\* for attempt in range(1, self.n_repeats + 1): first iteration
Start ==
    /\ pc = "Pending"
    /\ HasNext(0)
    /\ BeginAttempt(1)
    /\ UNCHANGED notRunner
    /\ UNCHANGED <<config, ret, err, log, history>>

\* The unit of work measures one more size point, in one synchronous step.
Measure ==
    /\ pc = "Attempting"
    /\ step < MaxMeasures
    /\ Running
    /\ \E d \in 1..MaxStepTime : clock' = clock + d
    /\ step' = step + 1
    /\ samples' = RecordSample(samples, attempt, step + 1)
    /\ UNCHANGED notRunner
    /\ UNCHANGED <<config, pc, attempt, inflight, ret, err, log, history>>

\* The unit of work is parked in an await and time passes.
Await ==
    /\ pc = "Attempting"
    /\ suspends
    /\ step < MaxMeasures
    /\ clock < timeout
    /\ clock' = clock + 1
    /\ UNCHANGED notRunner
    /\ UNCHANGED <<config, pc, attempt, step, samples, inflight, ret, err,
                   log, history>>

\* The sweep is complete and the unit of work returns; run() hands the value
\* to _log_test_results inside the try block.
WorkReturns ==
    /\ pc = "Attempting"
    /\ step = MaxMeasures
    /\ LET r == MakeResult(shape, samples) IN
        /\ history' = Append(history,
               [outcome |-> "success", exc |-> "none", value |-> r,
                measured |-> samples # <<>>])
        /\ inflight' = Ended(inflight, attempt)
        /\ IF LogRaises(r)
           THEN /\ log' = log \o ResultRecords(r, attempt)
                            \o <<FailedRecord(attempt, "AttributeError")>>
                /\ pc' = "AttemptFailed"
                /\ ret' = ret
           ELSE /\ log' = log \o ResultRecords(r, attempt)
                /\ pc' = "Succeeded"
                /\ ret' = Returned(r, attempt)
    /\ UNCHANGED notRunner
    /\ UNCHANGED <<config, attempt, clock, step, samples, err>>

\* The unit of work raises; run() catches it in `except Exception`.
WorkRaises ==
    /\ pc = "Attempting"
    /\ Running
    /\ \E e \in ExcKinds :
        /\ history' = Append(history,
               [outcome |-> "fail", exc |-> e, value |-> NoValue,
                measured |-> samples # <<>>])
        /\ log' = Append(log, FailedRecord(attempt, e))
    /\ inflight' = Ended(inflight, attempt)
    /\ pc' = "AttemptFailed"
    /\ UNCHANGED notRunner
    /\ UNCHANGED <<config, attempt, clock, step, samples, ret, err>>

\* The deadline timer fires while the work is parked: wait_for cancels it.
Deadline ==
    /\ pc = "Attempting"
    /\ ~Running
    /\ pc' = "Cancelling"
    /\ UNCHANGED notRunner
    /\ UNCHANGED <<config, attempt, clock, step, samples, inflight, ret, err,
                   log, history>>

\* The cancelled coroutine has unwound; wait_for raises TimeoutError and
\* run() catches it in `except asyncio.TimeoutError`.
CancelAck ==
    /\ pc = "Cancelling"
    /\ inflight' = Cancelled(inflight, attempt)
    /\ history' = Append(history,
           [outcome |-> "timeout", exc |-> "TimeoutError", value |-> NoValue,
            measured |-> samples # <<>>])
    /\ log' = Append(log, TimedOutRecord(attempt))
    /\ pc' = "AttemptTimedOut"
    /\ UNCHANGED notRunner
    /\ UNCHANGED <<config, attempt, clock, step, samples, ret, err>>

\* The handler did not raise and the range has a next value.
Retry ==
    /\ pc \in {"AttemptFailed", "AttemptTimedOut"}
    /\ ~IsLastAttempt(attempt)
    /\ HasNext(attempt)
    /\ BeginAttempt(attempt + 1)
    /\ UNCHANGED notRunner
    /\ UNCHANGED <<config, ret, err, log, history>>

\* raise TestTimeoutError("Test %s consistently timed out", self.test_name)
RaiseTimeout ==
    /\ pc = "AttemptTimedOut"
    /\ IsLastAttempt(attempt)
    /\ pc' = "ExhaustedTimeout"
    /\ err' = [type |-> "TestTimeoutError", args |-> <<test_name>>]
    /\ UNCHANGED notRunner
    /\ UNCHANGED <<config, attempt, clock, step, samples, inflight, ret, log,
                   history>>

\* raise TestError("Test %s failed after %s attempts", name, self.n_repeats)
RaiseError ==
    /\ pc = "AttemptFailed"
    /\ IsLastAttempt(attempt)
    /\ pc' = "ExhaustedError"
    /\ err' = [type |-> "TestError", args |-> <<test_name, n_repeats>>]
    /\ UNCHANGED notRunner
    /\ UNCHANGED <<config, attempt, clock, step, samples, inflight, ret, log,
                   history>>

\* The loop ran out of values without returning or raising: the raise that
\* follows it, TestError("Unexpected failure in test %s", self.test_name).
RaiseUnexpected ==
    /\ IF pc = "Pending" THEN ~HasNext(0)
       ELSE /\ pc \in {"AttemptFailed", "AttemptTimedOut"}
            /\ ~IsLastAttempt(attempt)
            /\ ~HasNext(attempt)
    /\ pc' = "Unexpected"
    /\ err' = [type |-> "TestError", args |-> <<test_name>>]
    /\ UNCHANGED notRunner
    /\ UNCHANGED <<config, attempt, clock, step, samples, inflight, ret, log,
                   history>>

Next ==
    \/ Start
    \/ Measure
    \/ Await
    \/ WorkReturns
    \/ WorkRaises
    \/ Deadline
    \/ CancelAck
    \/ Retry
    \/ RaiseTimeout
    \/ RaiseError
    \/ RaiseUnexpected

Spec == Init /\ [][Next]_vars

\* run() under the event loop: a coroutine that can take a step is resumed,
\* the work returns, raises or is parked, and a deadline that has elapsed
\* while the work is parked is delivered.
SpecLive == Init /\ [][Next]_vars /\ WF_vars(Next)

\* ------------------------------------------------------- the batch loops
\* How the profiling of one item can end.  In main the item goes through
\* TestResults.run, which returns or raises one of its two terminal errors;
\* in test_solutions test_algorithm is awaited directly and returns or
\* re-raises whatever the sweep raised.
BatchFailures(mode) ==
    IF mode = "main" THEN {"TestError", "TestTimeoutError"}
    ELSE {"Exception"}

\* (mutation of CaughtByLoop: the loop catches TestError only)
CaughtTestErrorOnly(e) == e = "TestError"

\* except Exception: TestError is an Exception, and so is TestTimeoutError
\* (TimeoutError is an OSError).
CaughtByLoop(e) == e \in {"Exception", "TestError", "TestTimeoutError"}

\* TestResults(lambda: test_algorithm(test)) is built in main only.
RunnersBuilt(mode) == IF mode = "main" THEN 1 ELSE 0

InitBatch ==
    /\ BatchAlone
    /\ b_mode \in {"main", "test_solutions"}
    /\ b_n \in 0..MaxItems
    /\ b_pc = "loop"
    /\ b_pos = 1
    /\ b_runs = [i \in 1..b_n |-> 0]
    /\ b_runners = [i \in 1..b_n |-> 0]
    /\ b_ended = <<>>
    /\ b_log = <<>>

\* for test in test_cases: the profiling of the next item is started.
BatchBegin ==
    /\ b_pc = "loop"
    /\ b_pos <= b_n
    /\ b_runners' = [b_runners EXCEPT ![b_pos] = @ + RunnersBuilt(b_mode)]
    /\ b_runs' = [b_runs EXCEPT ![b_pos] = @ + 1]
    /\ b_pc' = "running"
    /\ UNCHANGED <<b_mode, b_n, b_pos, b_ended, b_log>>
    /\ UNCHANGED notBatch

\* The awaited call returns: the results are logged, next item.
BatchItemReturns ==
    /\ b_pc = "running"
    /\ b_ended' = Append(b_ended, "returned")
    /\ b_log' = Append(b_log, [level |-> "info", item |-> b_pos])
    /\ b_pos' = b_pos + 1
    /\ b_pc' = "loop"
    /\ UNCHANGED <<b_mode, b_n, b_runs, b_runners>>
    /\ UNCHANGED notBatch

\* The awaited call raises: the except clause logs it and the loop goes on;
\* what the clause does not catch leaves the loop.
BatchItemRaises ==
    /\ b_pc = "running"
    /\ \E e \in BatchFailures(b_mode) :
        /\ b_ended' = Append(b_ended, e)
        /\ IF CaughtByLoop(e)
           THEN /\ b_log' = Append(b_log, [level |-> "error", item |-> b_pos])
                /\ b_pos' = b_pos + 1
                /\ b_pc' = "loop"
           ELSE /\ b_pc' = "propagated"
                /\ UNCHANGED <<b_log, b_pos>>
    /\ UNCHANGED <<b_mode, b_n, b_runs, b_runners>>
    /\ UNCHANGED notBatch

\* The list is exhausted.
BatchEnd ==
    /\ b_pc = "loop"
    /\ b_pos > b_n
    /\ b_pc' = "done"
    /\ UNCHANGED <<b_mode, b_n, b_pos, b_runs, b_runners, b_ended, b_log>>
    /\ UNCHANGED notBatch

NextBatch ==
    \/ BatchBegin
    \/ BatchItemReturns
    \/ BatchItemRaises
    \/ BatchEnd

SpecBatch == InitBatch /\ [][NextBatch]_batchVars

\* ------------------------------------------------------------- get_input
RECURSIVE LStrip(_)
LStrip(t) == IF t # <<>> /\ Head(t) = " " THEN LStrip(Tail(t)) ELSE t

RECURSIVE RStrip(_)
RStrip(t) ==
    IF t # <<>> /\ t[Len(t)] = " " THEN RStrip(SubSeq(t, 1, Len(t) - 1))
    ELSE t

\* str.strip()
Strip(t) == RStrip(LStrip(t))

\* (mutation of CacheKey: the cache is keyed by year and day only)
CacheKeyYearDay(c) == <<c.year, c.day>>

\* lru_cache builds the key from the arguments as passed: a call that
\* leaves max_attempts out and one that passes it have different keys.
CacheKey(c) ==
    IF c.form = "omitted" THEN <<c.year, c.day>>
    ELSE <<c.year, c.day, c.m>>

\* (mutation of IsFinalRead: one attempt short)
IsFinalReadEarly(k, m) == k = m - 2

\* if attempt == max_attempts - 1
IsFinalRead(k, m) == k = m - 1

\* A function extended by one pair.
Put(f, k, v) == [x \in DOMAIN f \cup {k} |-> IF x = k THEN v ELSE f[x]]

\* What was returned before for these very arguments, and what was returned
\* before for this year and day under any arguments.
ServedFor(c) == IF c \in DOMAIN i_served THEN {i_served[c]} ELSE {}

PriorFor(c) ==
    {i_served[k] : k \in {x \in DOMAIN i_served :
                              x.year = c.year /\ x.day = c.day}}

Ending(kind, value, msg) ==
    [kind |-> kind, value |-> value, msg |-> msg,
     warned |-> (kind = "returned" /\ value = <<>>),
     served |-> i_result.served, prior |-> i_result.prior]

InitInput ==
    /\ InputAlone
    /\ InputIdle

\* get_input(...) with a key the cache holds: the wrapper returns the cached
\* content; the body does not run.
CacheHit ==
    /\ i_pc = "idle"
    /\ Len(i_hist) < MaxCalls
    /\ \E c \in Calls :
        /\ CacheKey(c) \in DOMAIN i_cache
        /\ i_call' = c
        /\ i_hist' = Append(i_hist, c)
        /\ i_result' = [kind |-> "returned", value |-> i_cache[CacheKey(c)],
                        msg |-> "none", warned |-> FALSE,
                        served |-> ServedFor(c), prior |-> PriorFor(c)]
        /\ i_served' = IF c \in DOMAIN i_served THEN i_served
                       ELSE Put(i_served, c, i_cache[CacheKey(c)])
    /\ i_trace' = <<>>
    /\ i_attempt' = 0
    /\ UNCHANGED <<i_cache, i_pc, i_raw>>
    /\ UNCHANGED notInput

\* get_input(...) with a key the cache does not hold: the body starts.
CacheMiss ==
    /\ i_pc = "idle"
    /\ Len(i_hist) < MaxCalls
    /\ \E c \in Calls :
        /\ CacheKey(c) \notin DOMAIN i_cache
        /\ i_call' = c
        /\ i_hist' = Append(i_hist, c)
        /\ i_result' = [NoResult EXCEPT !.served = ServedFor(c),
                                        !.prior = PriorFor(c)]
    /\ i_pc' = "loop"
    /\ i_attempt' = 0
    /\ i_trace' = <<>>
    /\ UNCHANGED <<i_cache, i_raw, i_served>>
    /\ UNCHANGED notInput

\* open() and read() succeed: the stripped content is returned and cached.
ReadSucceeds ==
    /\ i_pc = "loop"
    /\ i_attempt < i_call.m
    /\ \E raw \in RawFiles :
        /\ i_raw' = raw
        /\ i_result' = Ending("returned", Strip(raw), "none")
        /\ i_cache' = Put(i_cache, CacheKey(i_call), Strip(raw))
        /\ i_served' = IF i_call \in DOMAIN i_served THEN i_served
                       ELSE Put(i_served, i_call, Strip(raw))
    /\ i_trace' = Append(i_trace, "content")
    /\ i_pc' = "idle"
    /\ UNCHANGED <<i_call, i_attempt, i_hist>>
    /\ UNCHANGED notInput

\* FileNotFoundError or another IOError: logged; AOCError on the final
\* attempt, otherwise the next attempt.
ReadFails ==
    /\ i_pc = "loop"
    /\ i_attempt < i_call.m
    /\ \E e \in {"notfound", "ioerror"} :
        /\ i_trace' = Append(i_trace, e)
        /\ IF IsFinalRead(i_attempt, i_call.m)
           THEN /\ i_result' = Ending("AOCError", <<>>,
                                     IF e = "notfound" THEN "Could not read"
                                     ELSE "IO error")
                /\ i_pc' = "idle"
                /\ UNCHANGED i_attempt
           ELSE /\ i_attempt' = i_attempt + 1
                /\ UNCHANGED <<i_result, i_pc>>
    /\ UNCHANGED <<i_cache, i_call, i_raw, i_hist, i_served>>
    /\ UNCHANGED notInput

\* read() meets bytes that are not UTF-8: UnicodeDecodeError is a
\* ValueError, neither except clause catches it, it leaves get_input.
ReadUndecodable ==
    /\ i_pc = "loop"
    /\ i_attempt < i_call.m
    /\ i_trace' = Append(i_trace, "undecodable")
    /\ i_result' = Ending("UnicodeDecodeError", <<>>, "none")
    /\ i_pc' = "idle"
    /\ UNCHANGED <<i_cache, i_call, i_attempt, i_raw, i_hist, i_served>>
    /\ UNCHANGED notInput

\* range(max_attempts) is exhausted without a return or a raise: the raise
\* after the loop.
LoopExhausted ==
    /\ i_pc = "loop"
    /\ i_attempt >= i_call.m
    /\ i_result' = Ending("AOCError", <<>>, "Unexpected")
    /\ i_pc' = "idle"
    /\ UNCHANGED <<i_cache, i_call, i_attempt, i_trace, i_raw, i_hist,
                   i_served>>
    /\ UNCHANGED notInput

NextInput ==
    \/ CacheHit
    \/ CacheMiss
    \/ ReadSucceeds
    \/ ReadFails
    \/ ReadUndecodable
    \/ LoopExhausted

SpecInput == InitInput /\ [][NextInput]_inputVars

\* ------------------------------------------------------- solve_challenge
\* The solvers handed to solve_challenge: one that computes a total from the
\* input, the unimplemented part of the template, one that cannot work on
\* an empty input, one that returns None, and one that calls sys.exit().
Solvers == {"total", "not_implemented", "rejects_empty", "returns_none",
            "exits"}

\* Exception classes derived from Exception, and those derived from
\* BaseException only.
ExceptionKinds == {"NotImplementedError", "ValueError"}
BaseOnlyKinds == {"SystemExit"}

None == [none |-> TRUE, v |-> 0]
Value(n) == [none |-> FALSE, v |-> n]

\* The number of characters of t that are not whitespace.
RECURSIVE Total(_)
Total(t) ==
    IF t = <<>> THEN 0
    ELSE (IF Head(t) = " " THEN 0 ELSE 1) + Total(Tail(t))

SolverReturn(value) == [kind |-> "returns", value |-> value, exc |-> "none"]
SolverRaise(exc) == [kind |-> "raises", value |-> None, exc |-> exc]

\* solver(input_data)
SolverOutcome(solver, data) ==
    CASE solver = "total" -> SolverReturn(Value(Total(data)))
      [] solver = "not_implemented" -> SolverRaise("NotImplementedError")
      [] solver = "rejects_empty" ->
            IF data = <<>> THEN SolverRaise("ValueError")
            ELSE SolverReturn(Value(Total(data)))
      [] solver = "returns_none" -> SolverReturn(None)
      [] solver = "exits" -> SolverRaise("SystemExit")

\* (mutation of CaughtBySolve: only ValueError is caught)
CaughtValueErrorOnly(e) == e = "ValueError"

\* except Exception as e
CaughtBySolve(e) == e \in ExceptionKinds

\* main calls solve_challenge once for Part 1 and once for Part 2.
Parts == <<"Part 1", "Part 2">>

\* The input is what get_input returns: a stripped file.
InitSolve ==
    /\ SolveAlone
    /\ s_input_data \in {Strip(raw) : raw \in RawFiles}
    /\ s_pc = "call"
    /\ s_solvers = <<>>
    /\ s_solutions = <<>>
    /\ s_raised = "none"
    /\ s_log = <<>>

\* solve_challenge(aoc_input, solver, part_name) is entered.
SolveCall ==
    /\ s_pc = "call"
    /\ Len(s_solutions) < Len(Parts)
    /\ \E solver \in Solvers : s_solvers' = Append(s_solvers, solver)
    /\ s_pc' = "solving"
    /\ UNCHANGED <<s_input_data, s_solutions, s_raised, s_log>>
    /\ UNCHANGED notSolve

\* solver(input_data) returns: info record, the solution is returned.
SolverReturns ==
    /\ s_pc = "solving"
    /\ LET o == SolverOutcome(s_solvers[Len(s_solvers)], s_input_data)
       IN /\ o.kind = "returns"
          /\ s_solutions' = Append(s_solutions, o.value)
          /\ s_log' = Append(s_log, [level |-> "info",
                                     part |-> Parts[Len(s_solvers)]])
    /\ s_pc' = "call"
    /\ UNCHANGED <<s_input_data, s_solvers, s_raised>>
    /\ UNCHANGED notSolve

\* solver(input_data) raises: what except Exception catches is logged and
\* None is returned; anything else leaves solve_challenge.
SolverRaises ==
    /\ s_pc = "solving"
    /\ LET o == SolverOutcome(s_solvers[Len(s_solvers)], s_input_data)
       IN /\ o.kind = "raises"
          /\ IF CaughtBySolve(o.exc)
             THEN /\ s_solutions' = Append(s_solutions, None)
                  /\ s_log' = Append(s_log, [level |-> "error",
                                             part |-> Parts[Len(s_solvers)]])
                  /\ s_pc' = "call"
                  /\ UNCHANGED s_raised
             ELSE /\ s_raised' = o.exc
                  /\ s_pc' = "propagated"
                  /\ UNCHANGED <<s_solutions, s_log>>
    /\ UNCHANGED <<s_input_data, s_solvers>>
    /\ UNCHANGED notSolve

\* Both parts have been called.
SolveDone ==
    /\ s_pc = "call"
    /\ Len(s_solutions) = Len(Parts)
    /\ s_pc' = "done"
    /\ UNCHANGED <<s_input_data, s_solvers, s_solutions, s_raised, s_log>>
    /\ UNCHANGED notSolve

NextSolve ==
    \/ SolveCall
    \/ SolverReturns
    \/ SolverRaises
    \/ SolveDone

SpecSolve == InitSolve /\ [][NextSolve]_solveVars

\* ------------------------------------------------------------------ main
\* Script paths, split at the separator: the layout challenges/{year}/{day}/
\* py/index.py, a day that is no number, an empty component where the year
\* should be, and a path too short to have a fourth component from the end.
ScriptPaths ==
    {<<"", "challenges", "2025", "1", "py", "index.py">>,
     <<"", "challenges", "2025", "x", "py", "index.py">>,
     <<"", "1", "py", "index.py">>,
     <<"", "py", "index.py">>}

\* int(text): the decimal texts that occur in ScriptPaths; every other
\* component raises ValueError.
IsIntText(text) == text \in {"2025", "1"}
IntOf(text) == IF text = "2025" THEN 2025 ELSE 1

\* parts[-k] exists
HasFromEnd(parts, k) == k <= Len(parts)
\* parts[-k]
FromEnd(parts, k) == parts[Len(parts) - k + 1]

\* year = int(parts[-4]); day = int(parts[-3]) raise neither IndexError nor
\* ValueError.
Extractable(parts) ==
    /\ HasFromEnd(parts, 4)
    /\ IsIntText(FromEnd(parts, 4))
    /\ IsIntText(FromEnd(parts, 3))

\* How get_input can end: with the stripped content, with AOCError, or with
\* an exception it does not handle.
InputEndings == {"returned", "AOCError", "UnicodeDecodeError"}

\* How asyncio.run(test_solutions()) can end: test_solutions catches the
\* failure of every item; asyncio.run itself raises RuntimeError when it is
\* called from a running event loop.
PerfEndings == {"completed", "RuntimeError"}

\* solve_challenge(data, solver, part_name) as one call.
SolveChallenge(data, solver) ==
    LET o == SolverOutcome(solver, data) IN
    IF o.kind = "returns"
    THEN [kind |-> "returned", value |-> o.value, exc |-> "none"]
    ELSE IF CaughtBySolve(o.exc)
    THEN [kind |-> "returned", value |-> None, exc |-> "none"]
    ELSE [kind |-> "raised", value |-> None, exc |-> o.exc]

\* (mutation of CaughtByMain: main catches AOCError only)
CaughtAOCErrorOnly(e) == e = "AOCError"

\* except Exception as e, around the whole body of main.
CaughtByMain(e) == e \notin BaseOnlyKinds

\* (mutation of ExitCode: a run with a part that could not be computed fails)
ExitCodeStrict(solutions) ==
    IF \E i \in 1..Len(solutions) : solutions[i] = None THEN 1 ELSE 0

\* return 0, whatever the solutions are.
ExitCode(solutions) == 0

\* The record main emits for solution i.
SolutionRecord(i, solution) ==
    IF solution # None
    THEN [kind |-> "print", part |-> i, solution |-> solution]
    ELSE [kind |-> "warning", part |-> i, solution |-> None]

ErrorRecord(what) == [kind |-> "error", part |-> 0, solution |-> None,
                      what |-> what]

InitMain ==
    /\ MainAlone
    /\ m_parts \in ScriptPaths
    /\ m_solvers \in Solvers \X Solvers
    /\ m_pc = "start"
    /\ m_year_day = <<>>
    /\ m_got = "none"
    /\ m_input = <<>>
    /\ m_solutions = <<>>
    /\ m_out = <<>>
    /\ m_perf = "none"
    /\ m_exit = {}
    /\ m_raised = "none"

\* Year and day are extracted from the path; on IndexError or ValueError the
\* error is logged and main returns 1.
MainExtract ==
    /\ m_pc = "start"
    /\ IF Extractable(m_parts)
       THEN /\ m_year_day' = <<IntOf(FromEnd(m_parts, 4)),
                               IntOf(FromEnd(m_parts, 3))>>
            /\ m_pc' = "retrieve"
            /\ UNCHANGED <<m_out, m_exit>>
       ELSE /\ m_out' = Append(m_out, ErrorRecord("path"))
            /\ m_exit' = {1}
            /\ m_pc' = "returned"
            /\ UNCHANGED m_year_day
    /\ UNCHANGED <<m_parts, m_solvers, m_got, m_input, m_solutions, m_perf,
                   m_raised>>
    /\ UNCHANGED notMain

\* aoc_input = get_input(year, day): AOCError is logged and main returns 1;
\* another exception reaches the except clause around the body.
MainRetrieve ==
    /\ m_pc = "retrieve"
    /\ \E e \in InputEndings :
        /\ m_got' = e
        /\ IF e = "returned"
           THEN /\ \E raw \in RawFiles : m_input' = Strip(raw)
                /\ m_pc' = "solve"
                /\ UNCHANGED <<m_out, m_exit, m_raised>>
           ELSE IF e = "AOCError" \/ CaughtByMain(e)
           THEN /\ m_out' = Append(m_out, ErrorRecord(e))
                /\ m_exit' = {1}
                /\ m_pc' = "returned"
                /\ UNCHANGED <<m_input, m_raised>>
           ELSE /\ m_raised' = e
                /\ m_pc' = "propagated"
                /\ UNCHANGED <<m_input, m_out, m_exit>>
    /\ UNCHANGED <<m_parts, m_solvers, m_year_day, m_solutions, m_perf>>
    /\ UNCHANGED notMain

\* The next element of the list `solutions`: one call of solve_challenge.
MainSolve ==
    /\ m_pc = "solve"
    /\ Len(m_solutions) < Len(Parts)
    /\ LET r == SolveChallenge(m_input, m_solvers[Len(m_solutions) + 1]) IN
       IF r.kind = "returned"
       THEN /\ m_solutions' = Append(m_solutions, r.value)
            /\ UNCHANGED <<m_pc, m_out, m_exit, m_raised>>
       ELSE IF CaughtByMain(r.exc)
       THEN /\ m_out' = Append(m_out, ErrorRecord(r.exc))
            /\ m_exit' = {1}
            /\ m_pc' = "returned"
            /\ UNCHANGED <<m_solutions, m_raised>>
       ELSE /\ m_raised' = r.exc
            /\ m_pc' = "propagated"
            /\ UNCHANGED <<m_solutions, m_out, m_exit>>
    /\ UNCHANGED <<m_parts, m_solvers, m_year_day, m_got, m_input, m_perf>>
    /\ UNCHANGED notMain

\* for i, solution in enumerate(solutions, 1): printed, or a warning.
MainPrint ==
    /\ m_pc = "solve"
    /\ Len(m_solutions) = Len(Parts)
    /\ m_out' = m_out \o [i \in 1..Len(m_solutions) |->
                             SolutionRecord(i, m_solutions[i])]
    /\ m_pc' = "perf"
    /\ UNCHANGED <<m_parts, m_solvers, m_year_day, m_got, m_input,
                   m_solutions, m_perf, m_exit, m_raised>>
    /\ UNCHANGED notMain

\* part1 and part2 are functions, so the performance tests run; then
\* return 0.  An exception of the run reaches the except clause: return 1.
MainPerf ==
    /\ m_pc = "perf"
    /\ \E e \in PerfEndings :
        /\ m_perf' = e
        /\ IF e = "completed"
           THEN /\ m_exit' = {ExitCode(m_solutions)}
                /\ m_pc' = "returned"
                /\ UNCHANGED <<m_out, m_raised>>
           ELSE IF CaughtByMain(e)
           THEN /\ m_out' = Append(m_out, ErrorRecord(e))
                /\ m_exit' = {1}
                /\ m_pc' = "returned"
                /\ UNCHANGED m_raised
           ELSE /\ m_raised' = e
                /\ m_pc' = "propagated"
                /\ UNCHANGED <<m_out, m_exit>>
    /\ UNCHANGED <<m_parts, m_solvers, m_year_day, m_got, m_input,
                   m_solutions>>
    /\ UNCHANGED notMain

NextMain ==
    \/ MainExtract
    \/ MainRetrieve
    \/ MainSolve
    \/ MainPrint
    \/ MainPerf

SpecMain == InitMain /\ [][NextMain]_mainVars

\* ------------------------------------------------------ find_middle_node
\* The list whose nodes hold the values of `values`, in order.
LinkedList(values) ==
    [i \in 1..Len(values) |->
        [value |-> values[i],
         next |-> IF i < Len(values) THEN i + 1 ELSE 0]]

ValueLists == UNION {[1..n -> 1..MaxValue] : n \in 0..MaxNodes}

InitList ==
    /\ ListAlone
    /\ \E values \in ValueLists :
        /\ l_nodes = LinkedList(values)
        /\ l_head = IF values = <<>> THEN 0 ELSE 1
    /\ l_slow = l_head
    /\ l_fast = l_head
    /\ l_pc = "loop"
    /\ l_ret = {}

\* while fast and fast.next
Advancing == l_fast # 0 /\ l_nodes[l_fast].next # 0

\* slow = slow.next; fast = fast.next.next
ListStep ==
    /\ l_pc = "loop"
    /\ l_head # 0
    /\ Advancing
    /\ l_slow' = l_nodes[l_slow].next
    /\ l_fast' = l_nodes[l_nodes[l_fast].next].next
    /\ UNCHANGED <<l_nodes, l_head, l_pc, l_ret>>
    /\ UNCHANGED notList

\* if not head: return head; after the loop: return slow.value
ListReturn ==
    /\ l_pc = "loop"
    /\ IF l_head = 0
       THEN l_ret' = {0}
       ELSE /\ ~Advancing
            /\ l_ret' = {l_nodes[l_slow].value}
    /\ l_pc' = "returned"
    /\ UNCHANGED <<l_nodes, l_head, l_slow, l_fast>>
    /\ UNCHANGED notList

NextList ==
    \/ ListStep
    \/ ListReturn

SpecList == InitList /\ [][NextList]_listVars

\* --------------------------------------------------------- CircularQueue
\* (mutation of IsFull: the queue never reports full)
IsFullNever(head, tail, k) == FALSE

\* (self.tail + 1) % self.k == self.head
IsFull(head, tail, k) == (tail + 1) % k = head

\* (i + 1) % self.k
NextSlot(i, k) == (i + 1) % k

\* __init__: self.queue = [None] * k; self.head = self.tail = -1
InitQueue ==
    /\ QueueAlone
    /\ q_k \in 0..MaxK
    /\ q_queue = [i \in 1..q_k |-> 0]
    /\ q_head = -1
    /\ q_tail = -1
    /\ q_fifo = <<>>
    /\ q_last = NoOp

\* enqueue(data).  With k = 0 the first test divides by zero.
Enqueue ==
    /\ \E data \in 1..MaxData :
            IF q_k = 0
            THEN /\ q_last' = [op |-> "enqueue", ret |-> 0,
                               exc |-> "ZeroDivisionError"]
                 /\ UNCHANGED <<q_k, q_queue, q_head, q_tail, q_fifo>>
            ELSE /\ q_last' = [op |-> "enqueue", ret |-> 0, exc |-> "none"]
                 /\ IF IsFull(q_head, q_tail, q_k)
                    THEN UNCHANGED <<q_queue, q_head, q_tail, q_fifo>>
                    ELSE IF q_head = -1
                    THEN /\ q_head' = 0
                         /\ q_tail' = 0
                         /\ q_queue' = [q_queue EXCEPT ![1] = data]
                         /\ q_fifo' = Append(q_fifo, data)
                    ELSE /\ q_tail' = NextSlot(q_tail, q_k)
                         /\ q_queue' = [q_queue EXCEPT
                                           ![NextSlot(q_tail, q_k) + 1] = data]
                         /\ q_fifo' = Append(q_fifo, data)
                         /\ UNCHANGED q_head
                 /\ UNCHANGED q_k
    /\ UNCHANGED notQueue

\* dequeue()
Dequeue ==
    /\ IF q_head = -1
       THEN /\ q_last' = [op |-> "dequeue", ret |-> 0, exc |-> "none"]
            /\ UNCHANGED <<q_head, q_tail, q_fifo>>
       ELSE /\ q_last' = [op |-> "dequeue", ret |-> q_queue[q_head + 1],
                          exc |-> "none"]
            /\ q_fifo' = Tail(q_fifo)
            /\ IF q_head = q_tail
               THEN q_head' = -1 /\ q_tail' = -1
               ELSE q_head' = NextSlot(q_head, q_k) /\ UNCHANGED q_tail
    /\ UNCHANGED <<q_k, q_queue>>
    /\ UNCHANGED notQueue

NextQueue ==
    \/ Enqueue
    \/ Dequeue

SpecQueue == InitQueue /\ [][NextQueue]_queueVars

\* --------------------------------------------------------- PriorityQueue
\* arr[i], arr[j] = arr[j], arr[i] (Python indices)
Swapped(arr, i, j) ==
    [arr EXCEPT ![i + 1] = arr[j + 1], ![j + 1] = arr[i + 1]]

\* heapify(arr, n, i)
RECURSIVE Heapify(_, _, _)
Heapify(arr, n, i) ==
    LET l == 2 * i + 1
        r == 2 * i + 2
        big == IF l < n /\ arr[i + 1] < arr[l + 1] THEN l ELSE i
        largest == IF r < n /\ arr[big + 1] < arr[r + 1] THEN r ELSE big
    IN IF largest # i THEN Heapify(Swapped(arr, i, largest), n, largest)
       ELSE arr

\* for i in range(first, -1, -1): heapify(arr, n, i)
RECURSIVE HeapifyDown(_, _, _)
HeapifyDown(arr, n, first) ==
    IF first < 0 THEN arr
    ELSE HeapifyDown(Heapify(arr, n, first), n, first - 1)

\* insert(array, newNum): the loop heapifies with the size the array had
\* before the append.
Insert(array, newNum) ==
    LET size == Len(array) IN
    IF size = 0 THEN Append(array, newNum)
    ELSE HeapifyDown(Append(array, newNum), size, (size \div 2) - 1)

\* The Python index the search loop of deleteNode ends with.
RECURSIVE FoundAt(_, _, _)
FoundAt(array, num, i) ==
    IF i >= Len(array) - 1 \/ array[i + 1] = num THEN i
    ELSE FoundAt(array, num, i + 1)

\* list.remove(x): the list without the first item equal to x.
RECURSIVE Removed(_, _)
Removed(list, x) ==
    IF Head(list) = x THEN Tail(list)
    ELSE <<Head(list)>> \o Removed(Tail(list), x)

Contains(list, x) == \E i \in 1..Len(list) : list[i] = x

\* deleteNode(array, num) on a non-empty array: the array it leaves and the
\* exception it raises.  array.remove(size - 1) removes the value size - 1.
DeleteNode(array, num) ==
    LET size == Len(array)
        i == FoundAt(array, num, 0)
        swapped == Swapped(array, i, size - 1)
    IN IF ~Contains(swapped, size - 1)
       THEN [array |-> swapped, exc |-> "ValueError"]
       ELSE LET rest == Removed(swapped, size - 1) IN
            [array |-> HeapifyDown(rest, Len(rest), (Len(rest) \div 2) - 1),
             exc |-> "none"]

InitHeap ==
    /\ HeapAlone
    /\ h_array = <<>>
    /\ h_before = <<>>
    /\ h_ops = <<>>
    /\ h_exc = "none"

HeapInsert ==
    /\ Len(h_ops) < MaxHeapOps
    /\ \E num \in 1..MaxNum :
        /\ h_array' = Insert(h_array, num)
        /\ h_ops' = Append(h_ops, [op |-> "insert", num |-> num])
    /\ h_before' = h_array
    /\ h_exc' = "none"
    /\ UNCHANGED notHeap

\* deleteNode on an empty array raises IndexError at the swap.
HeapDelete ==
    /\ Len(h_ops) < MaxHeapOps
    /\ \E num \in 1..MaxNum :
        /\ h_ops' = Append(h_ops, [op |-> "deleteNode", num |-> num])
        /\ IF h_array = <<>>
           THEN h_array' = h_array /\ h_exc' = "IndexError"
           ELSE /\ h_array' = DeleteNode(h_array, num).array
                /\ h_exc' = DeleteNode(h_array, num).exc
    /\ h_before' = h_array
    /\ UNCHANGED notHeap

NextHeap ==
    \/ HeapInsert
    \/ HeapDelete

SpecHeap == InitHeap /\ [][NextHeap]_heapVars

\* ---------------------------------------------------------------- Sorting
\* Sorting.heapify(arr, n, i)
RECURSIVE SortingHeapify(_, _, _)
SortingHeapify(arr, n, i) ==
    LET l == 2 * i + 1
        r == 2 * i + 2
        big == IF l < n /\ arr[i + 1] < arr[l + 1] THEN l ELSE i
        largest == IF r < n /\ arr[big + 1] < arr[r + 1] THEN r ELSE big
    IN IF largest # i
       THEN SortingHeapify(Swapped(arr, i, largest), n, largest)
       ELSE arr

\* for i in range(n // 2, -1, -1): self.heapify(arr, n, i)
RECURSIVE BuildMaxHeap(_, _, _)
BuildMaxHeap(arr, n, i) ==
    IF i < 0 THEN arr
    ELSE BuildMaxHeap(SortingHeapify(arr, n, i), n, i - 1)

\* for i in range(n - 1, 0, -1): swap arr[i] and arr[0], heapify(arr, i, 0)
RECURSIVE ExtractMax(_, _)
ExtractMax(arr, i) ==
    IF i < 1 THEN arr
    ELSE ExtractMax(SortingHeapify(Swapped(arr, i, 0), i, 0), i - 1)

heapSort(arr) ==
    LET n == Len(arr) IN ExtractMax(BuildMaxHeap(arr, n, n \div 2), n - 1)

\* The merge loop of mergeSort takes the next item from L, not from M.
TakeLeftAlways(left, right) == TRUE

TakeLeft(left, right) == left < right

\* The three while loops of mergeSort: what they write into array.
RECURSIVE Merge(_, _)
Merge(L, M) ==
    IF L = <<>> THEN M
    ELSE IF M = <<>> THEN L
    ELSE IF TakeLeft(Head(L), Head(M))
         THEN <<Head(L)>> \o Merge(Tail(L), M)
         ELSE <<Head(M)>> \o Merge(L, Tail(M))

RECURSIVE mergeSort(_)
mergeSort(array) ==
    IF Len(array) > 1
    THEN LET r == Len(array) \div 2
             L == SubSeq(array, 1, r)
             M == SubSeq(array, r + 1, Len(array))
         IN Merge(mergeSort(L), mergeSort(M))
    ELSE array

\* The for loop of partition from index j on: the array and the pointer i
\* it ends with.
RECURSIVE PartitionLoop(_, _, _, _, _)
PartitionLoop(array, pivot, i, j, high) ==
    IF j >= high THEN [array |-> array, i |-> i]
    ELSE IF array[j + 1] <= pivot
         THEN PartitionLoop(Swapped(array, i + 1, j), pivot, i + 1, j + 1,
                            high)
         ELSE PartitionLoop(array, pivot, i, j + 1, high)

\* partition(array, low, high): the array it leaves and the index it returns.
partition(array, low, high) ==
    LET loop == PartitionLoop(array, array[high + 1], low - 1, low, high)
    IN [array |-> Swapped(loop.array, loop.i + 1, high), pi |-> loop.i + 1]

RECURSIVE quickSort(_, _, _)
quickSort(array, low, high) ==
    IF low < high
    THEN LET p == partition(array, low, high)
         IN quickSort(quickSort(p.array, low, p.pi - 1), p.pi + 1, high)
    ELSE array

SortLists ==
    UNION {[1..n -> 0..MaxSortValue] : n \in 0..MaxSortLen}

InitSort ==
    /\ SortAlone
    /\ srt_input \in SortLists
    /\ srt_array = srt_input
    /\ srt_pc = "ready"
    /\ srt_ret = NoValue

CallHeapSort ==
    /\ srt_pc = "ready"
    /\ srt_array' = heapSort(srt_array)
    /\ srt_ret' = srt_array'
    /\ srt_pc' = "heapSort"
    /\ UNCHANGED srt_input
    /\ UNCHANGED notSort

CallMergeSort ==
    /\ srt_pc = "ready"
    /\ srt_array' = mergeSort(srt_array)
    /\ srt_ret' = srt_array'
    /\ srt_pc' = "mergeSort"
    /\ UNCHANGED srt_input
    /\ UNCHANGED notSort

CallQuickSort ==
    /\ srt_pc = "ready"
    /\ srt_array' = quickSort(srt_array, 0, Len(srt_array) - 1)
    /\ srt_ret' = srt_array'
    /\ srt_pc' = "quickSort"
    /\ UNCHANGED srt_input
    /\ UNCHANGED notSort

NextSort ==
    \/ CallHeapSort
    \/ CallMergeSort
    \/ CallQuickSort

SpecSort == InitSort /\ [][NextSort]_sortVars

\* ------------------------------------------------------------------ Graph
\* float("inf"): above the length of every path of the graphs considered.
Inf == MaxVertices * MaxWeight + 1

Vertices(V) == 0..(V - 1)

\* The loop of min_distance from vertex v on.  The return sits inside the
\* if, so the loop ends at the first vertex that passes the test.
RECURSIVE MinDistanceFrom(_, _, _, _, _)
MinDistanceFrom(dist, sptSet, V, minimum, v) ==
    IF v >= V THEN [found |-> FALSE, min_index |-> 0]
    ELSE IF dist[v] < minimum /\ sptSet[v] = FALSE
         THEN [found |-> TRUE, min_index |-> v]
         ELSE MinDistanceFrom(dist, sptSet, V, minimum, v + 1)

\* min_distance(dist, sptSet); found is FALSE where Python returns None.
min_distance(dist, sptSet, V) == MinDistanceFrom(dist, sptSet, V, Inf, 0)

\* The undirected graphs on V vertices with weights up to MaxWeight.
Graphs(V) ==
    {g \in [Vertices(V) -> [Vertices(V) -> 0..MaxWeight]] :
        \A u, v \in Vertices(V) : g[u][u] = 0 /\ g[u][v] = g[v][u]}

\* dijkstra(src) up to the start of its outer loop.
InitGraph ==
    /\ GraphAlone
    /\ g_V \in 1..MaxVertices
    /\ g_graph \in Graphs(g_V)
    /\ \E src \in Vertices(g_V) :
           g_dist = [v \in Vertices(g_V) |-> IF v = src THEN 0 ELSE Inf]
    /\ g_sptSet = [v \in Vertices(g_V) |-> FALSE]
    /\ g_u = 0
    /\ g_round = 0
    /\ g_pc = "loop"

\* u = self.min_distance(dist, sptSet) returns a vertex.
PickVertex ==
    /\ g_pc = "loop"
    /\ min_distance(g_dist, g_sptSet, g_V).found
    /\ g_u' = min_distance(g_dist, g_sptSet, g_V).min_index
    /\ g_pc' = "picked"
    /\ UNCHANGED <<g_V, g_graph, g_dist, g_sptSet, g_round>>
    /\ UNCHANGED notGraph

\* min_distance returns None and sptSet[u] = True raises TypeError.
PickNone ==
    /\ g_pc = "loop"
    /\ ~min_distance(g_dist, g_sptSet, g_V).found
    /\ g_pc' = "raised"
    /\ UNCHANGED <<g_V, g_graph, g_dist, g_sptSet, g_u, g_round>>
    /\ UNCHANGED notGraph

\* sptSet[u] = True and the inner loop over v.
Relax ==
    /\ g_pc = "picked"
    /\ g_sptSet' = [g_sptSet EXCEPT ![g_u] = TRUE]
    /\ g_dist' = [v \in Vertices(g_V) |->
                     IF /\ g_graph[g_u][v] > 0
                        /\ g_sptSet'[v] = FALSE
                        /\ g_dist[v] > g_dist[g_u] + g_graph[g_u][v]
                     THEN g_dist[g_u] + g_graph[g_u][v]
                     ELSE g_dist[v]]
    /\ g_round' = g_round + 1
    /\ g_pc' = IF g_round' = g_V THEN "done" ELSE "loop"
    /\ UNCHANGED <<g_V, g_graph, g_u>>
    /\ UNCHANGED notGraph

NextGraph ==
    \/ PickVertex
    \/ PickNone
    \/ Relax

SpecGraph == InitGraph /\ [][NextGraph]_graphVars

\* ------------------------------------------------------- 2025 day 1 dial
Min(a, b) == IF a < b THEN a ELSE b

Max(a, b) == IF a > b THEN a ELSE b

Abs(t) == IF t < 0 THEN -t ELSE t

\* int(new_p == 0)
IsZero(p) == IF p = 0 THEN 1 ELSE 0

\* The branch of f for p == 0, were it to count nothing.
FromZeroNone(t) == 0

\* The branch of f for p == 0.
FromZero(t) == Abs(t) \div dial_size

\* f(p, t, dir) of part2
RECURSIVE f(_, _, _)
f(p, t, dir) ==
    IF t = 0 THEN 0
    ELSE IF p = 0 THEN FromZero(t)
    ELSE IF dir = "L"
         THEN LET new_p == Max(p - t, 0) % dial_size
                  new_t == t - Min(p, t)
              IN IsZero(new_p) + f(new_p, new_t, dir)
         ELSE LET new_p == (p + Min(dial_size - p, t)) % dial_size
                  new_t == t - Min(dial_size - p, t)
              IN IsZero(new_p) + f(new_p, new_t, dir)

\* Where the dial points after k single clicks from p in direction dir.
AfterClicks(p, k, dir) == (IF dir = "L" THEN p - k ELSE p + k) % dial_size

\* Turning the dial t single clicks from p in direction dir: the number of
\* clicks after which it points at 0.
Clicks(p, t, dir) ==
    Cardinality({k \in 1..t : AfterClicks(p, k, dir) = 0})

InitDial ==
    /\ DialAlone
    /\ dl_lines = 0
    /\ dl_current = dial_start
    /\ dl_zeroes = 0
    /\ dl_current2 = dial_start
    /\ dl_ans = 0
    /\ dl_clicks = 0

\* One line 'L<amount>' through the loop body of part1 and of part2.
RotateLeft ==
    /\ dl_lines < MaxRotations
    /\ \E amount \in 1..MaxAmount :
        /\ dl_current' = (dl_current - amount) % dial_size
        /\ dl_ans' = dl_ans + f(dl_current2, amount, "L")
        /\ dl_current2' = (dl_current2 + amount * (-1)) % dial_size
        /\ dl_clicks' = dl_clicks + Clicks(dl_current2, amount, "L")
    /\ dl_zeroes' = dl_zeroes + IsZero(dl_current')
    /\ dl_lines' = dl_lines + 1
    /\ UNCHANGED notDial

\* One line 'R<amount>' through the loop body of part1 and of part2.
RotateRight ==
    /\ dl_lines < MaxRotations
    /\ \E amount \in 1..MaxAmount :
        /\ dl_current' = (dl_current + amount) % dial_size
        /\ dl_ans' = dl_ans + f(dl_current2, amount, "R")
        /\ dl_current2' = (dl_current2 + amount) % dial_size
        /\ dl_clicks' = dl_clicks + Clicks(dl_current2, amount, "R")
    /\ dl_zeroes' = dl_zeroes + IsZero(dl_current')
    /\ dl_lines' = dl_lines + 1
    /\ UNCHANGED notDial

NextDial ==
    \/ RotateLeft
    \/ RotateRight

SpecDial == InitDial /\ [][NextDial]_dialVars

\* ------------------------------------------------------------------ claims
\* Every attempt made so far ended the way `o` says, and one was made.
AllEnded(o) ==
    /\ history # <<>>
    /\ \A i \in 1..Len(history) : history[i].outcome = o

\* The attempts made so far ended, in order, the way `seq` says.
Outcomes(seq) ==
    /\ Len(history) = Len(seq)
    /\ \A i \in 1..Len(seq) : history[i].outcome = seq[i]

\* C1: when every attempt times out and n_repeats >= 1, no more than
\* n_repeats attempts are ever started, after the n_repeats-th timeout the
\* only step left is raising TestTimeoutError, and run has ended with
\* TestTimeoutError only after exactly n_repeats attempts.
C1_TimeoutExhaustion ==
    (n_repeats >= 1 /\ AllEnded("timeout")) =>
        /\ attempt <= n_repeats
        /\ (pc = "AttemptTimedOut" /\ attempt = n_repeats) =>
               (ENABLED RaiseTimeout /\ ~ENABLED Retry /\ ~ENABLED RaiseUnexpected)
        /\ (pc = "AttemptTimedOut" /\ attempt < n_repeats) =>
               (ENABLED Retry /\ ~ENABLED RaiseTimeout /\ ~ENABLED RaiseUnexpected)
        /\ pc \in Terminal =>
               /\ pc = "ExhaustedTimeout"
               /\ err.type = "TestTimeoutError"
               /\ attempt = n_repeats
               /\ Len(history) = n_repeats

\* C1 witness: a run of at least two attempts, all timed out, has raised.
C1_Witness ==
    /\ pc = "ExhaustedTimeout"
    /\ n_repeats >= 2
    /\ AllEnded("timeout")

\* C2: when every attempt raises a non-timeout error, run ends with the
\* TestError that carries n_repeats as its attempt count, after exactly
\* n_repeats attempts.
C2_ErrorExhaustion ==
    AllEnded("fail") =>
        /\ attempt <= n_repeats
        /\ (pc = "AttemptFailed" /\ attempt = n_repeats) =>
               (ENABLED RaiseError /\ ~ENABLED Retry /\ ~ENABLED RaiseUnexpected)
        /\ (pc = "AttemptFailed" /\ attempt < n_repeats) =>
               (ENABLED Retry /\ ~ENABLED RaiseError /\ ~ENABLED RaiseUnexpected)
        /\ pc \in Terminal =>
               /\ pc = "ExhaustedError"
               /\ err = [type |-> "TestError", args |-> <<test_name, n_repeats>>]
               /\ attempt = n_repeats
               /\ Len(history) = n_repeats

\* C2 witness: a run of at least two attempts, all failed, has raised.
C2_Witness ==
    /\ pc = "ExhaustedError"
    /\ n_repeats >= 2
    /\ AllEnded("fail")

\* The case of C3: n_repeats = 3, attempts 1 and 2 failed, attempt 3 returned.
FailFailSuccess ==
    /\ n_repeats = 3
    /\ Outcomes(<<"fail", "fail", "success">>)

\* C3 as stated: in that case run returns a successful outcome, and the
\* returned outcome is tagged with the attempt number 3.  (Stated for the
\* values whose logging completes, so that what refutes it is the missing tag
\* and not the failure of C4.)
C3_ReturnedOutcomeTagged ==
    (FailFailSuccess /\ history[3].value.shape # "flat_dict") =>
        (pc = "Succeeded" /\ "attempt" \in ret.keys)

\* C3 as amended: in that case the 'Successful' record of attempt 3 is logged;
\* run returns exactly the value attempt 3 produced, with no attempt number
\* added to it, unless that value is a dict with a value that is no dict, in
\* which case logging raises and run returns nothing.
C3_ReturnsUntagged ==
    FailFailSuccess =>
        /\ \E i \in 1..Len(log) : log[i] = SuccessRecord(3)
        /\ history[3].value.shape # "flat_dict" =>
               /\ pc = "Succeeded"
               /\ ret = history[3].value
               /\ "attempt" \notin ret.keys
        /\ history[3].value.shape = "flat_dict" =>
               /\ pc \in {"AttemptFailed", "ExhaustedError"}
               /\ ret = NoValue

\* C3 witness: fail, fail, success with n_repeats = 3 has returned.
C3_Witness ==
    /\ FailFailSuccess
    /\ pc = "Succeeded"
    /\ ret # NoValue

\* C4: run returns the result of the first attempt that succeeds: an attempt
\* that returned a value is the last one started, run has returned, and the
\* value it returned is the value that attempt produced.
C4_FirstSuccessReturned ==
    \A i \in 1..Len(history) :
        history[i].outcome = "success" =>
            /\ i = Len(history)
            /\ attempt = i
            /\ pc = "Succeeded"
            /\ ret = history[i].value

\* C5: at most one attempt is in flight, it is the current one, and every
\* attempt before the current one has ended.
C5_Sequential ==
    /\ Cardinality(inflight) <= 1
    /\ inflight \subseteq {attempt}
    /\ pc \in {"Attempting", "Cancelling"} =>
           (inflight = {attempt} /\ Len(history) = attempt - 1)
    /\ pc \notin {"Attempting", "Cancelling"} =>
           (inflight = {} /\ Len(history) = attempt)

\* C5 witness: attempt 2 is running after attempt 1 was cancelled on timeout.
C5_Witness ==
    /\ pc = "Attempting"
    /\ attempt = 2
    /\ history[1].outcome = "timeout"
    /\ step > 0

\* C6: once the deadline of an attempt has passed, the attempt makes no
\* further observable progress: it records no Sample after that.
C6_NoProgressAfterDeadline ==
    [][(pc = "Attempting" /\ clock >= timeout) =>
           ~(Len(samples') > Len(samples))]_vars

\* C7: every attempt starts with an empty Sample accumulator: the accumulator
\* holds only Samples recorded by the current attempt, and a returned result
\* was fitted only to Samples of the attempt that returned it.
C7_SamplesOwnedByAttempt ==
    /\ (pc = "Attempting" /\ step = 0) => samples = <<>>
    /\ \A i \in 1..Len(samples) : samples[i].attempt = attempt
    /\ pc = "Succeeded" =>
           \A i \in 1..Len(ret.data) : ret.data[i].attempt = attempt

\* C7 witness: a run returned on a later attempt, with data, after an earlier
\* attempt that had recorded Samples failed or timed out.
C7_Witness ==
    /\ pc = "Succeeded"
    /\ attempt >= 2
    /\ history[1].outcome \in {"fail", "timeout"}
    /\ history[1].measured
    /\ ret.data # <<>>

\* C8 as stated: an InsufficientDataError raised by an attempt is fatal: no
\* attempt is started after the attempt that raised it.
C8_InsufficientDataFatal ==
    \A i \in 1..Len(history) :
        history[i].exc = "InsufficientDataError" => attempt = i

\* C8 as amended: an InsufficientDataError is handled like any other
\* non-timeout exception: it is logged as a failed attempt, the next attempt
\* is started while attempts remain, and only when attempt n_repeats raised
\* it does run end, with TestError.
C8_InsufficientDataRetried ==
    (/\ pc = "AttemptFailed"
     /\ history[Len(history)].exc = "InsufficientDataError") =>
        /\ log[Len(log)] = FailedRecord(attempt, "InsufficientDataError")
        /\ attempt < n_repeats =>
               (ENABLED Retry /\ ~ENABLED RaiseError /\ ~ENABLED RaiseUnexpected)
        /\ attempt >= n_repeats =>
               (ENABLED RaiseError /\ ~ENABLED Retry /\ ~ENABLED RaiseUnexpected)

\* C8 witness: an attempt is running after an earlier attempt raised
\* InsufficientDataError.
C8_Witness ==
    /\ pc = "Attempting"
    /\ attempt >= 2
    /\ history[attempt - 1].exc = "InsufficientDataError"

\* C9: TestError is the terminal error only when a generic failure persisted
\* across all attempts (no attempt of the run timed out), and a run whose
\* last attempts timed out ends with TestTimeoutError.
C9_KindReflectsWholeRun ==
    /\ pc = "ExhaustedError" =>
           \A i \in 1..Len(history) : history[i].outcome # "timeout"
    /\ (pc \in Terminal /\ history # <<>>
        /\ history[Len(history)].outcome = "timeout") =>
           err.type = "TestTimeoutError"

\* The states of the runner's state machine: waiting for the cancellation to
\* be acknowledged is still part of the attempt.
RunnerState(p) == IF p = "Cancelling" THEN "Attempting" ELSE p

\* C10: every step of the runner is a transition of the state machine
\* Pending -> Attempting -> {Succeeded, AttemptFailed, AttemptTimedOut}; from
\* AttemptFailed or AttemptTimedOut the runner is back in Attempting iff
\* attempt < n_repeats and otherwise in the exhausted state of its kind with
\* the terminal error raised; the terminal states have no step.
C10_StateMachine ==
    [][LET p == RunnerState(pc)
           q == RunnerState(pc') IN
       /\ p = "Pending" => q = "Attempting"
       /\ p = "Attempting" =>
              q \in {"Attempting", "Succeeded", "AttemptFailed",
                     "AttemptTimedOut"}
       /\ p = "AttemptFailed" =>
              IF attempt < n_repeats
              THEN q = "Attempting" /\ attempt' = attempt + 1
              ELSE q = "ExhaustedError" /\ err'.type = "TestError"
       /\ p = "AttemptTimedOut" =>
              IF attempt < n_repeats
              THEN q = "Attempting" /\ attempt' = attempt + 1
              ELSE q = "ExhaustedTimeout" /\ err'.type = "TestTimeoutError"
       /\ p \notin {"Pending", "Attempting", "AttemptFailed",
                    "AttemptTimedOut"} => FALSE]_vars

\* The log records that carry attempt number k.
RecordsOf(k) ==
    {i \in 1..Len(log) : "attempt" \in DOMAIN log[i] /\ log[i].attempt = k}

ErrorRecordsOf(k) == {i \in RecordsOf(k) : log[i].level = "error"}

SuccessRecordsOf(k) == {i \in RecordsOf(k) : log[i].msg = "Successful"}

\* C11 as stated: every attempt that has ended emitted exactly one record for
\* that attempt, and the record carries the attempt number and the total
\* number of attempts.  (Stated for the attempts whose returned value, if
\* any, is logged without raising, so that what refutes it is not C4.)
C11_OneRecordWithTotal ==
    \A k \in 1..Len(history) :
        history[k].value.shape # "flat_dict" =>
            /\ Cardinality(RecordsOf(k)) = 1
            /\ \A i \in RecordsOf(k) :
                   "total" \in DOMAIN log[i] /\ log[i].total = n_repeats

\* C11 as amended: an attempt that raised or timed out emitted exactly one
\* error record, carrying the attempt number and the total; an attempt whose
\* work returned emitted exactly one 'Successful' record, carrying the attempt
\* number and no total, and an error record (with attempt number and total)
\* only if logging the returned value raised.
C11_AttemptRecords ==
    \A k \in 1..Len(history) :
        /\ \A i \in ErrorRecordsOf(k) :
               /\ log[i].total = n_repeats
               /\ log[i].test = test_name
        /\ history[k].outcome = "timeout" =>
               /\ Cardinality(RecordsOf(k)) = 1
               /\ \A i \in RecordsOf(k) : log[i].msg = "timed out"
        /\ history[k].outcome = "fail" =>
               /\ Cardinality(RecordsOf(k)) = 1
               /\ \A i \in RecordsOf(k) : log[i].msg = "failed"
        /\ history[k].outcome = "success" =>
               /\ Cardinality(SuccessRecordsOf(k)) = 1
               /\ \A i \in SuccessRecordsOf(k) : "total" \notin DOMAIN log[i]
               /\ Cardinality(ErrorRecordsOf(k)) =
                      IF history[k].value.shape = "flat_dict" THEN 1 ELSE 0

\* C11 witness: a run whose attempts timed out, failed and succeeded.
C11_Witness ==
    /\ pc = "Succeeded"
    /\ Outcomes(<<"timeout", "fail", "success">>)

\* C12: whenever run has raised a terminal error, the last record logged is
\* an error record for the final attempt that carries the name of the work
\* and the attempt count.
C12_TerminalErrorLogged ==
    err # NoError =>
        /\ log # <<>>
        /\ log[Len(log)].level = "error"
        /\ log[Len(log)].test = test_name
        /\ log[Len(log)].attempt = n_repeats
        /\ log[Len(log)].total = n_repeats

\* C14: an attempt in which the work raised returns nothing and counts as one
\* failed attempt, and a retry measures the whole sweep again: the result a
\* run returns holds one Sample for each size point, all of them recorded by
\* the attempt that returned it.
C14_FailedAttemptRerunsSweep ==
    /\ (pc = "AttemptFailed" /\ history[Len(history)].outcome = "fail") =>
           /\ ret = NoValue
           /\ Len(history) = attempt
    /\ (pc = "Attempting" /\ clock = 0) => (step = 0 /\ samples = <<>>)
    /\ pc = "Attempting" => Len(samples) = step
    /\ pc = "Succeeded" =>
           /\ Len(ret.data) = MaxMeasures
           /\ \A i \in 1..MaxMeasures :
                  ret.data[i] = [attempt |-> attempt, n |-> i]

\* C14 witness: a run returned on attempt 2 after attempt 1 had raised in the
\* middle of its sweep.
C14_Witness ==
    /\ pc = "Succeeded"
    /\ Outcomes(<<"fail", "success">>)
    /\ history[1].measured

\* What C13 states of every batch, but for who runs the items: the loop is
\* never left by an exception, no item is profiled twice, every item the loop
\* has passed was profiled once whatever the items before it ended with, and
\* a finished batch has profiled every item once.
BatchIsolated ==
    /\ b_pc # "propagated"
    /\ Len(b_ended) = (IF b_pc = "running" THEN b_pos - 1 ELSE
                       IF b_pc = "loop" THEN b_pos - 1 ELSE b_n)
    /\ \A i \in 1..b_n :
           /\ b_runs[i] <= 1
           /\ i < b_pos => b_runs[i] = 1
    /\ b_pc = "done" => \A i \in 1..b_n : b_runs[i] = 1

\* C13 as stated: failures are local to one item, and every item of a batch
\* is run exactly once through its own runner.
C13_EachItemThroughRunner ==
    /\ BatchIsolated
    /\ \A i \in 1..b_n : b_runners[i] = b_runs[i]

\* C13 as amended: failures are local to one item and every item of a batch
\* is profiled exactly once: through its own TestResults runner in main of
\* runtime.py, by a direct call of test_algorithm, with no runner, in
\* test_solutions.
C13_BatchIsolation ==
    /\ BatchIsolated
    /\ \A i \in 1..b_n :
           b_runners[i] = (IF b_mode = "main" THEN b_runs[i] ELSE 0)

\* C13 witness: a finished batch of main whose first item ended with
\* TestTimeoutError, its second with TestError, and whose last item returned.
C13_Witness ==
    /\ b_pc = "done"
    /\ b_mode = "main"
    /\ b_n = 3
    /\ b_ended = <<"TestTimeoutError", "TestError", "returned">>

\* Every open/read in t failed with FileNotFoundError or another IOError.
AllReadsFailed(t) == \A i \in 1..Len(t) : t[i] \in {"notfound", "ioerror"}

\* The last call ran the body of get_input and has ended.
BodyEnded == i_pc = "idle" /\ i_trace # <<>>

\* C18: for max_attempts >= 1 get_input reads the file at most max_attempts
\* times and goes on only while the reads fail; a call whose last read
\* succeeded returned what that read gave (its first success), stripped; a
\* call all of whose reads failed raised AOCError, and it did so after
\* exactly max_attempts reads.
C18_RetryThenRaise ==
    i_call.m >= 1 =>
        /\ Len(i_trace) <= i_call.m
        /\ AllReadsFailed(SubSeq(i_trace, 1, Len(i_trace) - 1))
        /\ i_pc = "loop" => AllReadsFailed(i_trace) /\ Len(i_trace) = i_attempt
        /\ BodyEnded /\ i_trace[Len(i_trace)] = "content" =>
               /\ i_result.kind = "returned"
               /\ i_result.value = Strip(i_raw)
        /\ BodyEnded /\ AllReadsFailed(i_trace) =>
               /\ i_result.kind = "AOCError"
               /\ i_result.msg \in {"Could not read", "IO error"}
               /\ Len(i_trace) = i_call.m
        /\ i_pc = "idle" /\ i_result.kind = "AOCError" =>
               AllReadsFailed(i_trace) /\ Len(i_trace) = i_call.m

\* C18 witness: a call with the default max_attempts raised AOCError after
\* three failed reads, after an earlier call with max_attempts = 1 had
\* returned the stripped content of its first read.
C18_Witness ==
    /\ i_pc = "idle"
    /\ i_call.form = "omitted"
    /\ i_trace = <<"notfound", "ioerror", "notfound">>
    /\ i_result.kind = "AOCError"
    /\ i_hist[1].m = 1
    /\ i_raw = <<" ", "a">>
    /\ i_served = Put(EmptyMap, i_hist[1], <<"a">>)

\* C19 as stated: once get_input has returned for a (year, day), every later
\* get_input for that (year, day) returns the same content without reading
\* the file, whether or not max_attempts is passed.
C19_CachedPerYearDay ==
    i_pc = "idle" /\ i_result.prior # {} =>
        /\ i_result.kind = "returned"
        /\ i_result.prior = {i_result.value}
        /\ i_trace = <<>>

\* C19 as amended: once get_input has returned for given arguments, every
\* later call with the same arguments as passed returns the same content
\* without reading the file, whatever was requested in between; a call whose
\* arguments were not served before (the same year and day with max_attempts
\* passed differently included) runs the body and reads the file.
C19_CachedPerArguments ==
    i_pc = "idle" /\ i_result.kind # "none" =>
        /\ i_result.served # {} =>
               /\ i_result.kind = "returned"
               /\ i_result.served = {i_result.value}
               /\ i_trace = <<>>
        /\ i_result.served = {} /\ i_call.m >= 1 => i_trace # <<>>

\* C19 witness: the third call repeats the arguments of the first, a call for
\* another day was served in between, and the third call returned the first
\* call's content without a read.
C19_Witness ==
    /\ i_pc = "idle"
    /\ Len(i_hist) = 3
    /\ i_hist[3] = i_hist[1]
    /\ i_hist[2].day # i_hist[1].day
    /\ i_hist[2] \in DOMAIN i_served
    /\ i_result.served = {i_result.value}
    /\ i_trace = <<>>

\* C20: solve_challenge returns exactly what the solver returned when the
\* solver returns, and returns None (with an error record) when the solver
\* raises an exception, that is, an instance of a class derived from
\* Exception; nothing derived from Exception leaves solve_challenge.
C20_SolverFailureContained ==
    /\ s_raised \notin ExceptionKinds
    /\ s_pc = "propagated" => s_raised \in BaseOnlyKinds
    /\ Len(s_log) = Len(s_solutions)
    /\ \A i \in 1..Len(s_solutions) :
           LET o == SolverOutcome(s_solvers[i], s_input_data)
           IN /\ o.kind = "returns" =>
                     /\ s_solutions[i] = o.value
                     /\ s_log[i] = [level |-> "info", part |-> Parts[i]]
              /\ o.kind = "raises" =>
                     /\ o.exc \in ExceptionKinds
                     /\ s_solutions[i] = None
                     /\ s_log[i] = [level |-> "error", part |-> Parts[i]]

\* C20 witness: Part 1 raised NotImplementedError and gave None, after which
\* Part 2 returned the total 2 of the input "a a".
C20_Witness ==
    /\ s_pc = "done"
    /\ s_input_data = <<"a", " ", "a">>
    /\ s_solvers = <<"not_implemented", "total">>
    /\ s_solutions = <<None, Value(2)>>

\* C23: the raise placed after the retry loop of run is never reached, for
\* every value of n_repeats and every sequence of attempt outcomes.
C23_FinalRaiseUnreachable == pc # "Unexpected"

\* How run() sees the end of an attempt: the timeout handler ran, or the
\* generic handler ran (the work raised, or logging its result raised).
HandledAs(h) ==
    IF h.outcome = "timeout" THEN "timeout"
    ELSE IF h.outcome = "fail" \/ LogRaises(h.value) THEN "fail"
    ELSE "success"

\* C24: when a run that made an attempt ends in a terminal error, attempt
\* n_repeats was its last attempt and alone decides the kind of the error:
\* TestTimeoutError iff it timed out, TestError iff it failed with another
\* error, whatever the attempts before it ended with.
C24_LastAttemptDecides ==
    (pc \in Terminal /\ err # NoError /\ history # <<>>) =>
        /\ Len(history) = n_repeats
        /\ err.type \in {"TestTimeoutError", "TestError"}
        /\ err.type = "TestTimeoutError" <=>
               HandledAs(history[n_repeats]) = "timeout"
        /\ err.type = "TestError" <=>
               HandledAs(history[n_repeats]) = "fail"

\* C24 witness: with n_repeats = 3 the attempts ended timeout, timeout, fail
\* and the run raised TestError.
C24_Witness ==
    /\ n_repeats = 3
    /\ pc = "ExhaustedError"
    /\ Outcomes(<<"timeout", "timeout", "fail">>)
    /\ err.type = "TestError"

\* The three outcomes of a run, each with what it leaves behind.
ThreeOutcomes == {"Succeeded", "ExhaustedTimeout", "ExhaustedError"}

OutcomeConsistent ==
    /\ pc = "Succeeded" => ret # NoValue /\ err = NoError
    /\ pc = "ExhaustedTimeout" => ret = NoValue /\ err.type = "TestTimeoutError"
    /\ pc = "ExhaustedError" => ret = NoValue /\ err.type = "TestError"
    /\ pc \notin Terminal => ret = NoValue /\ err = NoError

\* C25: for n_repeats >= 1 every run eventually ends in exactly one of the
\* three outcomes (result returned, TestTimeoutError, TestError) and stays
\* there, and in no reachable state have more than n_repeats attempts been
\* started.
C25_Terminates ==
    /\ [](n_repeats >= 1 =>
            /\ attempt <= n_repeats
            /\ Len(history) <= attempt
            /\ pc # "Unexpected"
            /\ OutcomeConsistent)
    /\ (n_repeats >= 1) ~> (pc \in ThreeOutcomes)
    /\ [][(pc \in ThreeOutcomes) =>
              (pc' = pc /\ ret' = ret /\ err' = err)]_vars

\* C25 witness: a run with n_repeats = 3 whose work suspends ended with
\* TestTimeoutError after the attempts ended fail, timeout, timeout.
C25_Witness ==
    /\ n_repeats = 3
    /\ suspends
    /\ pc = "ExhaustedTimeout"
    /\ attempt = 3
    /\ Outcomes(<<"fail", "timeout", "timeout">>)

\* What C21 counts as failure of a finished run: the path gave no year and
\* day, get_input raised AOCError, or an unexpected exception was raised.
MainFailed ==
    \/ ~Extractable(m_parts)
    \/ m_got = "AOCError"
    \/ m_got = "UnicodeDecodeError"
    \/ m_perf = "RuntimeError"

\* C21: main returns 1 when year and day cannot be extracted from the path,
\* when get_input raises AOCError and on an unexpected exception (an
\* instance of a class derived from Exception), and 0 otherwise; a Part 1
\* that failed does not keep Part 2 from being run, and a run in which one
\* or both parts gave None still returns 0.
C21_ExitCode ==
    /\ m_pc = "returned" <=> m_exit # {}
    /\ m_pc = "returned" =>
           /\ m_exit = (IF MainFailed THEN {1} ELSE {0})
           /\ m_exit = {0} =>
                  /\ Len(m_solutions) = Len(Parts)
                  /\ \A i \in 1..Len(Parts) :
                         m_solutions[i] =
                             SolveChallenge(m_input, m_solvers[i]).value
    /\ m_pc \in {"solve", "perf"} /\ m_solutions # <<>> =>
           m_solutions[1] = SolveChallenge(m_input, m_solvers[1]).value
    /\ m_pc = "propagated" => m_raised \in BaseOnlyKinds

\* C21 witness: Part 1 raised NotImplementedError, Part 2 was run and
\* returned a total, one warning and one solution were emitted, and main
\* returned 0.
C21_Witness ==
    /\ m_pc = "returned"
    /\ m_exit = {0}
    /\ m_solvers = <<"not_implemented", "total">>
    /\ m_solutions = <<None, Value(1)>>
    /\ m_out = <<SolutionRecord(1, None), SolutionRecord(2, Value(1))>>

\* C22: find_middle_node returns the value of the middle node of a
\* non-empty list, and for a list of even length the first of the two
\* middle nodes (for 1 -> 2 -> 3 -> 4 the value 2).
C22_FirstMiddle ==
    (l_pc = "returned" /\ l_head # 0) =>
        l_ret = {l_nodes[(Len(l_nodes) + 1) \div 2].value}

\* The data stored from head to tail, going round the array.
RECURSIVE Stored(_, _)
Stored(i, n) ==
    IF n = 0 THEN <<>>
    ELSE <<q_queue[i + 1]>> \o Stored((i + 1) % q_k, n - 1)

\* The number of slots from head to tail.
Held ==
    IF q_head = -1 THEN 0
    ELSE IF q_tail >= q_head THEN q_tail - q_head + 1
    ELSE q_k - q_head + q_tail + 1

\* C26: a CircularQueue(k) is a bounded FIFO: it holds at most k data, which
\* are the accepted data in the order of their acceptance, so that dequeue
\* returns them in that order; head = -1 iff tail = -1 iff the queue is
\* empty; enqueue on a full queue and dequeue on an empty queue leave head,
\* tail and the stored data as they are.
C26_BoundedFifo ==
    /\ [](/\ Held <= q_k
          /\ Len(q_fifo) = Held
          /\ Stored(q_head, Held) = q_fifo
          /\ (q_head = -1) <=> (q_tail = -1)
          /\ (q_head = -1) <=> (q_fifo = <<>>)
          /\ q_k >= 1 => q_last.exc = "none")
    /\ [][/\ (q_last'.op = "dequeue" /\ q_fifo # <<>>) =>
                 (q_last'.ret = Head(q_fifo) /\ q_fifo' = Tail(q_fifo))
          /\ (q_last'.op = "dequeue" /\ q_fifo = <<>>) =>
                 (q_last'.ret = 0 /\ UNCHANGED <<q_queue, q_head, q_tail>>)
          /\ (q_last'.op = "enqueue" /\ Len(q_fifo) = q_k) =>
                 UNCHANGED <<q_queue, q_head, q_tail>>
          /\ (q_last'.op = "enqueue" /\ Len(q_fifo) < q_k) =>
                 (Len(q_fifo') = Len(q_fifo) + 1
                  /\ SubSeq(q_fifo', 1, Len(q_fifo)) = q_fifo)
         ]_queueVars

\* C26 witness: a full queue of capacity 3 whose tail has wrapped round the
\* end of the array below its head, after a dequeue returned the oldest
\* datum.
C26_Witness ==
    /\ q_k = 3
    /\ Len(q_fifo) = 3
    /\ q_tail < q_head
    /\ q_last.op = "enqueue"
    /\ q_fifo = <<2, 1, 2>>

\* Every parent at Python index i is >= its children at 2i + 1 and 2i + 2.
IsMaxHeap(arr) ==
    \A i \in 0..(Len(arr) - 1) :
        /\ 2 * i + 1 < Len(arr) => arr[i + 1] >= arr[2 * i + 2]
        /\ 2 * i + 2 < Len(arr) => arr[i + 1] >= arr[2 * i + 3]

\* How often x occurs in list.
Occurrences(list, x) == Cardinality({i \in 1..Len(list) : list[i] = x})

OnlyInserts == \A i \in 1..Len(h_ops) : h_ops[i].op = "insert"

\* C27: after any sequence of insert calls from an empty array the array is
\* a max-heap of exactly the inserted numbers, and deleteNode(array, num)
\* for a num present in a max-heap removes one occurrence of num and leaves
\* a max-heap of the rest.
C27_MaxHeap ==
    /\ OnlyInserts =>
           /\ IsMaxHeap(h_array)
           /\ \A x \in 1..MaxNum :
                  Occurrences(h_array, x) =
                      Cardinality({i \in 1..Len(h_ops) : h_ops[i].num = x})
    /\ (/\ h_ops # <<>>
        /\ h_ops[Len(h_ops)].op = "deleteNode"
        /\ IsMaxHeap(h_before)
        /\ Contains(h_before, h_ops[Len(h_ops)].num)) =>
           /\ h_exc = "none"
           /\ IsMaxHeap(h_array)
           /\ \A x \in 1..MaxNum :
                  Occurrences(h_array, x) =
                      Occurrences(h_before, x)
                      - (IF x = h_ops[Len(h_ops)].num THEN 1 ELSE 0)

IsAscending(list) ==
    \A i \in 1..(Len(list) - 1) : list[i] <= list[i + 1]

IsPermutation(list, other) ==
    /\ Len(list) = Len(other)
    /\ \A x \in 0..MaxSortValue :
           Occurrences(list, x) = Occurrences(other, x)

\* C28: heapSort, mergeSort and quickSort(array, 0, len - 1) each return
\* the input list in ascending order holding exactly the input's elements,
\* for empty, single-element and duplicate-holding lists too.
C28_SortedPermutation ==
    srt_pc \in {"heapSort", "mergeSort", "quickSort"} =>
        /\ IsAscending(srt_ret)
        /\ IsPermutation(srt_ret, srt_input)

C28_Witness ==
    /\ srt_pc = "quickSort"
    /\ srt_input = <<2, 0, 2, 1>>
    /\ srt_ret = <<0, 1, 2, 2>>

\* The vertices not yet in sptSet whose distance is finite.
Candidates == {v \in Vertices(g_V) : ~g_sptSet[v] /\ g_dist[v] < Inf}

\* C29: whenever a vertex outside sptSet with finite distance exists,
\* min_distance returns a vertex outside sptSet whose dist is minimal among
\* the vertices outside sptSet.
C29_MinDistance ==
    /\ g_pc = "picked" =>
           /\ ~g_sptSet[g_u]
           /\ \A v \in Vertices(g_V) :
                  ~g_sptSet[v] => g_dist[g_u] <= g_dist[v]
    /\ (g_pc \in {"loop", "picked", "raised"} /\ Candidates # {}) =>
           g_pc # "raised"

\* C30: the dial stays in 0..99 after every rotation from 50, part2's answer
\* is the number of single clicks after which the dial points at 0, and it
\* is never less than part1's count of rotations ending on 0.
C30_DialClicks ==
    /\ dl_current \in 0..(dial_size - 1)
    /\ dl_current2 \in 0..(dial_size - 1)
    /\ dl_ans = dl_clicks
    /\ dl_ans >= dl_zeroes

C30_Witness ==
    /\ dl_lines = 2
    /\ dl_current = 0
    /\ dl_zeroes = 1
    /\ dl_ans = 3

====
